---- MODULE Spec2Model ----
(***************************************************************************)
(* A model of src/src/start-openai-server.tsx: the prompt formatter        *)
(* (formatPromptForModel and the per-family formatters, computed on        *)
(* character strings as the code computes them) and the HTTP server        *)
(* created in Command (the router, the chat-completion handler, the        *)
(* streaming and batch branches, /kill).                                   *)
(*                                                                         *)
(* Strings are TLA+ strings; Len, \o and SubSeq act on their characters.   *)
(* Date.now() ("created") and console.log are left out of the responses.   *)
(***************************************************************************)
EXTENDS Integers, Sequences, FiniteSets, TLC

VARIABLES
    listening,  \* the listener of `server` accepts new connections
    pc,         \* pc[r]: where request r is in its life
    req,        \* req[r]: method, url, body chunks still to arrive, body accumulated
    log,        \* log[r]: the calls r's handlers made on res and on server, in order
    ai,         \* ai[r]: the AI.ask call made for r and what it has produced so far
    fmt,        \* fmt[r]: the calls of formatPromptForModel made for r
    fphase,     \* formatter run: "input" before the call, "done" after
    fmodel,     \* formatter run: the model identifier
    fmsgs,      \* formatter run: the message sequence
    fprompt     \* formatter run: the prompt returned

svars == <<listening, pc, req, log, ai, fmt>>
fvars == <<fphase, fmodel, fmsgs, fprompt>>
vars  == <<listening, pc, req, log, ai, fmt, fphase, fmodel, fmsgs, fprompt>>

(***************************************************************************)
(* Bounds.                                                                 *)
(***************************************************************************)
MaxReqs  == 2   \* requests (connections) in one run of the server
MaxFrags == 2   \* text fragments one AI.ask call emits at most
MaxMsgs  == 2   \* messages in a sequence given to the formatter run

(***************************************************************************)
(* String helpers: String.prototype.toLowerCase / includes / endsWith.     *)
(***************************************************************************)
UpperLetters == "ABCDEFGHIJKLMNOPQRSTUVWXYZ"
LowerLetters == "abcdefghijklmnopqrstuvwxyz"

lowerChar(c) ==
    IF \E i \in 1..Len(UpperLetters) : SubSeq(UpperLetters, i, i) = c
    THEN LET i == CHOOSE j \in 1..Len(UpperLetters) : SubSeq(UpperLetters, j, j) = c
         IN  SubSeq(LowerLetters, i, i)
    ELSE c

RECURSIVE toLowerCase(_)
toLowerCase(s) ==
    IF Len(s) = 0 THEN ""
    ELSE lowerChar(SubSeq(s, 1, 1)) \o toLowerCase(SubSeq(s, 2, Len(s)))

includes(s, sub) ==
    \E i \in 1..(Len(s) - Len(sub) + 1) : SubSeq(s, i, i + Len(sub) - 1) = sub

endsWith(s, suffix) ==
    /\ Len(s) >= Len(suffix)
    /\ SubSeq(s, Len(s) - Len(suffix) + 1, Len(s)) = suffix

\* The number of (possibly overlapping) occurrences of sub in s.
CountOccurrences(s, sub) ==
    Cardinality({i \in 1..(Len(s) - Len(sub) + 1) : SubSeq(s, i, i + Len(sub) - 1) = sub})

(***************************************************************************)
(* Messages: { role, content }.  The wire carries any string as a role.    *)
(***************************************************************************)
Msg(role, content) == [role |-> role, content |-> content]

(***************************************************************************)
(* The per-family formatters.                                              *)
(***************************************************************************)
llama3Role(role) ==
    IF role = "assistant" THEN "assistant"
    ELSE IF role = "system" THEN "system" ELSE "user"

llama3Each(msg) ==
    "<|start_header_id|>" \o llama3Role(msg.role) \o "<|end_header_id|>\n\n"
        \o msg.content \o "<|eot_id|>"

llama2Each(msg) ==
    IF msg.role = "user" THEN "[INST] " \o msg.content \o " [/INST]"
    ELSE IF msg.role = "assistant" THEN " " \o msg.content \o " </s><s>"
    ELSE ""

mistralEach(msg) ==
    IF msg.role = "user" THEN "[INST] " \o msg.content \o " [/INST]"
    ELSE IF msg.role = "assistant" THEN msg.content \o "</s>"
    ELSE ""

claudeEach(msg) ==
    IF msg.role = "system" THEN msg.content \o "\n\n"
    ELSE IF msg.role = "user" THEN "User: " \o msg.content \o "\n\n"
    ELSE IF msg.role = "assistant" THEN "Assistant: " \o msg.content \o "\n\n"
    ELSE ""

grokEach(msg) ==
    IF msg.role = "system" THEN "System Instruction:\n" \o msg.content \o "\n\n"
    ELSE IF msg.role = "user" THEN "User:\n" \o msg.content \o "\n\n"
    ELSE IF msg.role = "assistant" THEN "Assistant:\n" \o msg.content \o "\n\n"
    ELSE ""

simpleChatEach(msg, isSystemSupported) ==
    IF ~isSystemSupported /\ msg.role = "system"
    THEN "(System Instruction: " \o msg.content \o ")"
    ELSE msg.role \o ": " \o msg.content

defaultEach(msg) == "<" \o msg.role \o ">: " \o msg.content

\* messages.forEach(msg => prompt += each(msg)), for the family's each.
RECURSIVE forEachAppend(_, _, _)
forEachAppend(family, prompt, messages) ==
    IF messages = <<>> THEN prompt
    ELSE LET msg == Head(messages)
             piece == CASE family = "Llama3"  -> llama3Each(msg)
                        [] family = "Llama2"  -> llama2Each(msg)
                        [] family = "Mistral" -> mistralEach(msg)
                        [] family = "Claude"  -> claudeEach(msg)
                        [] family = "Grok"    -> grokEach(msg)
         IN  forEachAppend(family, prompt \o piece, Tail(messages))

\* Array.prototype.join(sep) on an array of strings.
RECURSIVE join(_, _)
join(strs, sep) ==
    IF strs = <<>> THEN ""
    ELSE IF Len(strs) = 1 THEN strs[1]
    ELSE strs[1] \o sep \o join(Tail(strs), sep)

formatLlama3(messages) ==
    forEachAppend("Llama3", "<|begin_of_text|>", messages)
        \o "<|start_header_id|>assistant<|end_header_id|>\n\n"

\* formatLlama2 without the removal of a trailing "<s>".
formatLlama2_NoTrim(messages) ==
    LET hasSystemPrompt == Len(messages) >= 1 /\ messages[1].role = "system"
        start == IF hasSystemPrompt
                 THEN "<s>" \o "[INST] <<SYS>>\n" \o messages[1].content \o "\n<</SYS>>\n\n"
                 ELSE "<s>"
        rest == IF hasSystemPrompt THEN Tail(messages) ELSE messages
    IN  forEachAppend("Llama2", start, rest)

formatLlama2(messages) ==
    LET hasSystemPrompt == Len(messages) >= 1 /\ messages[1].role = "system"
        start == IF hasSystemPrompt
                 THEN "<s>" \o "[INST] <<SYS>>\n" \o messages[1].content \o "\n<</SYS>>\n\n"
                 ELSE "<s>"
        rest == IF hasSystemPrompt THEN Tail(messages) ELSE messages
        prompt == forEachAppend("Llama2", start, rest)
    IN  IF endsWith(prompt, "<s>") THEN SubSeq(prompt, 1, Len(prompt) - 3) ELSE prompt

formatMistral(messages) == forEachAppend("Mistral", "<s>", messages)

formatClaude(messages) == forEachAppend("Claude", "", messages) \o "Assistant:"

formatGrok(messages) == forEachAppend("Grok", "", messages) \o "Assistant:\n"

formatSimpleChat(messages, isSystemSupported) ==
    join([i \in 1..Len(messages) |-> simpleChatEach(messages[i], isSystemSupported)], "\n\n")

formatDefault(messages) ==
    join([i \in 1..Len(messages) |-> defaultEach(messages[i])], "\n\n")

(***************************************************************************)
(* formatPromptForModel: the cascade of substring tests on the lower-cased *)
(* identifier.  matchedRule is the number of the `if` whose return is      *)
(* taken (9: the final return).                                            *)
(***************************************************************************)
\* The cascade with the DeepSeek test moved before the Claude test.
matchedRule_DeepSeekEarly(modelIdLower) ==
    IF includes(modelIdLower, "llama3.1") \/ includes(modelIdLower, "llama-4") THEN 1
    ELSE IF includes(modelIdLower, "llama3") \/ includes(modelIdLower, "llama-3.3") THEN 2
    ELSE IF includes(modelIdLower, "llama2") \/ includes(modelIdLower, "codellama") THEN 3
    ELSE IF includes(modelIdLower, "mistral") \/ includes(modelIdLower, "nemo")
            \/ includes(modelIdLower, "codestral") THEN 4
    ELSE IF includes(modelIdLower, "deepseek") THEN 7
    ELSE IF includes(modelIdLower, "anthropic") \/ includes(modelIdLower, "claude") THEN 5
    ELSE IF includes(modelIdLower, "grok") THEN 6
    ELSE IF includes(modelIdLower, "openai") \/ includes(modelIdLower, "google")
            \/ includes(modelIdLower, "gemini") THEN 8
    ELSE 9

matchedRule(modelIdLower) ==
    IF includes(modelIdLower, "llama3.1") \/ includes(modelIdLower, "llama-4") THEN 1
    ELSE IF includes(modelIdLower, "llama3") \/ includes(modelIdLower, "llama-3.3") THEN 2
    ELSE IF includes(modelIdLower, "llama2") \/ includes(modelIdLower, "codellama") THEN 3
    ELSE IF includes(modelIdLower, "mistral") \/ includes(modelIdLower, "nemo")
            \/ includes(modelIdLower, "codestral") THEN 4
    ELSE IF includes(modelIdLower, "anthropic") \/ includes(modelIdLower, "claude") THEN 5
    ELSE IF includes(modelIdLower, "grok") THEN 6
    ELSE IF includes(modelIdLower, "deepseek") THEN 7
    ELSE IF includes(modelIdLower, "openai") \/ includes(modelIdLower, "google")
            \/ includes(modelIdLower, "gemini") THEN 8
    ELSE 9

formatPromptForModel(messages, modelId) ==
    LET modelIdLower == toLowerCase(modelId)
        rule == matchedRule(modelIdLower)
    IN  CASE rule \in {1, 2} -> formatLlama3(messages)
          [] rule = 3 -> formatLlama2(messages)
          [] rule = 4 -> formatMistral(messages)
          [] rule = 5 -> formatClaude(messages)
          [] rule = 6 -> formatGrok(messages)
          [] rule = 7 -> formatLlama2(messages)
          [] rule = 8 -> formatSimpleChat(messages, includes(modelIdLower, "openai"))
          [] rule = 9 -> formatDefault(messages)

(***************************************************************************)
(* The HTTP surface.  A response body is a JSON value or, on the event     *)
(* stream, a frame "data: " + JSON + "\n\n" (sse = TRUE).  JSON values are *)
(* records of their fields; `text` is the error / message string.          *)
(***************************************************************************)
JSON_TYPE == "application/json"
SSE_TYPE  == "text/event-stream"

Json(kind, model, content, finish, text) ==
    [kind |-> kind, model |-> model, content |-> content,
     finish_reason |-> finish, text |-> text]

NoData           == Json("none", "", "", "", "")
ErrorBody(msg)   == Json("error", "", "", "", msg)
MessageBody(msg) == Json("message", "", "", "", msg)
ModelsBody       == Json("models", "", "", "", "")
DeltaChunk(model, content) == Json("chunk", model, content, "", "")
StopChunk(model) == Json("chunk", model, "", "stop", "")
DoneLiteral      == Json("literal", "", "", "", "[DONE]")
CompletionBody(model, result) == Json("completion", model, result, "stop", "")

\* The calls a handler makes, as entries of log[r].
WriteHead(status, ctype) ==
    [op |-> "writeHead", status |-> status, ctype |-> ctype, sse |-> FALSE, data |-> NoData]
WriteFrame(data) ==
    [op |-> "write", status |-> 0, ctype |-> "", sse |-> TRUE, data |-> data]
End(data) ==
    [op |-> "end", status |-> 0, ctype |-> "", sse |-> FALSE, data |-> data]
ServerClose ==
    [op |-> "server.close", status |-> 0, ctype |-> "", sse |-> FALSE, data |-> NoData]

(***************************************************************************)
(* Request bodies, as the chunks the "data" events deliver, and JSON.parse *)
(* on the texts they add up to.                                            *)
(***************************************************************************)
BodyEmpty          == <<>>
BodyNull           == <<"null">>
BodyNoMessages     == <<"{\"model\":\"llama3\"}">>
BodyMessagesString == <<"{\"messages\":\"hi\"}">>
BodyEmptyDefault   == <<"{\"messages\":[]}">>
BodyEmptyLlama3    == <<"{\"model\":\"llama3\",\"messages\":[],\"stream\":true}">>
BodyBatch          == <<"{\"messages\":[{\"role\":\"user\",\"content\":\"hi\"}]}">>
BodyStream         == <<"{\"model\":\"Mistral\",\"messages\":[{\"role\":\"user\",",
                        "\"content\":\"hi\"}],\"stream\":true}">>

ChatBodies ==
    {BodyEmpty, BodyNull, BodyNoMessages, BodyMessagesString,
     BodyEmptyDefault, BodyEmptyLlama3, BodyBatch, BodyStream}

Parsed(ok, isNull, model, messagesKind, messages, stream, error) ==
    [ok |-> ok, isNull |-> isNull, model |-> model, messagesKind |-> messagesKind,
     messages |-> messages, stream |-> stream, error |-> error]

\* JSON.parse(body) on the body texts above: ok = FALSE when it throws (error: the
\* SyntaxError's message).  model is "" when absent; messagesKind is "absent",
\* "nonarray" or "array"; stream is "absent" or "true".
JSONparse(body) ==
    CASE body = join(BodyNull, "") ->
            Parsed(TRUE, TRUE, "", "absent", <<>>, "absent", "")
      [] body = join(BodyNoMessages, "") ->
            Parsed(TRUE, FALSE, "llama3", "absent", <<>>, "absent", "")
      [] body = join(BodyMessagesString, "") ->
            Parsed(TRUE, FALSE, "", "nonarray", <<>>, "absent", "")
      [] body = join(BodyEmptyDefault, "") ->
            Parsed(TRUE, FALSE, "", "array", <<>>, "absent", "")
      [] body = join(BodyEmptyLlama3, "") ->
            Parsed(TRUE, FALSE, "llama3", "array", <<>>, "true", "")
      [] body = join(BodyBatch, "") ->
            Parsed(TRUE, FALSE, "", "array", <<Msg("user", "hi")>>, "absent", "")
      [] body = join(BodyStream, "") ->
            Parsed(TRUE, FALSE, "Mistral", "array", <<Msg("user", "hi")>>, "true", "")
      [] OTHER ->
            Parsed(FALSE, FALSE, "", "absent", <<>>, "absent", "Unexpected end of JSON input")

DefaultModel == "OpenAI_GPT4o-mini"
NullTypeError == "Cannot read properties of null (reading 'model')"
MissingMessages == "Missing or invalid 'messages' in request body"
MissingContent == "Missing 'content' in the last message"
AIFailure == "AI request failed"

(***************************************************************************)
(* The handlers' bodies, as the calls they make.                           *)
(***************************************************************************)
\* The /kill route with server.close() called before the response is written.
killHandler_CloseFirst ==
    <<ServerClose, WriteHead(200, JSON_TYPE), End(MessageBody("Server shutting down"))>>

\* if (req.method === "POST" && req.url === "/kill") { ... }
killHandler ==
    <<WriteHead(200, JSON_TYPE), End(MessageBody("Server shutting down")), ServerClose>>

\* if (req.method === "GET" && req.url === "/v1/models") { ... }
modelsHandler == <<WriteHead(200, JSON_TYPE), End(ModelsBody)>>

\* if (req.method !== "POST" || req.url !== "/v1/chat/completions") { ... }
notFoundHandler == <<WriteHead(404, JSON_TYPE), End(ErrorBody("Endpoint not found"))>>

\* The outer catch with the error swallowed: nothing is written.
catchHandler_Swallow(message) == <<>>

\* catch (err) { res.writeHead(500, ...); res.end(JSON.stringify({ error: err.message })) }
catchHandler(message) == <<WriteHead(500, JSON_TYPE), End(ErrorBody(message))>>

badRequest(message) == <<WriteHead(400, JSON_TYPE), End(ErrorBody(message))>>

\* res.writeHead(200, { "Content-Type": "text/event-stream", ... })
streamOpen == <<WriteHead(200, SSE_TYPE)>>

\* answer.on("data", data => res.write("data: " + JSON.stringify({... delta ...}) + "\n\n"))
onData(written, model, data) == written \o <<WriteFrame(DeltaChunk(model, data))>>

\* answer.then with the sentinel written before the finish chunk.
onThen_DoneFirst(model) ==
    <<WriteFrame(DoneLiteral), WriteFrame(StopChunk(model)), End(NoData)>>

\* answer.then(() => { res.write(stop chunk); res.write("data: [DONE]\n\n"); res.end() })
onThen(model) ==
    <<WriteFrame(StopChunk(model)), WriteFrame(DoneLiteral), End(NoData)>>

\* The stream's catch also closing the stream with the sentinel.
onStreamCatch_WithDone(message) ==
    <<WriteFrame(ErrorBody(message)), WriteFrame(DoneLiteral), End(NoData)>>

\* The stream's failure handled by the outer catch: a second status line.
onStreamCatch_Status500(message) ==
    <<WriteHead(500, JSON_TYPE), End(ErrorBody(message))>>

\* .catch(err => { res.write("data: " + JSON.stringify({ error: err.message }) + "\n\n"); res.end() })
onStreamCatch(message) == <<WriteFrame(ErrorBody(message)), End(NoData)>>

\* The batch branch after `await answer`.
batchSuccess(model, result) ==
    <<WriteHead(200, JSON_TYPE), End(CompletionBody(model, result))>>

(***************************************************************************)
(* The inference capability AI.ask: it emits text fragments as "data"      *)
(* events while it runs, and then resolves with the whole text or rejects. *)
(***************************************************************************)
Fragment(i) == "tok" \o ToString(i)

RECURSIVE AnswerText(_)
AnswerText(n) == IF n = 0 THEN "" ELSE AnswerText(n - 1) \o Fragment(n)

\* n: the "data" events emitted so far.
NoCall == [calls |-> 0, prompt |-> "", model |-> "", n |-> 0, settled |-> "no"]

(***************************************************************************)
(* The server.                                                             *)
(***************************************************************************)
Reqs == 1..MaxReqs

RequestLines ==
    {<<"POST", "/kill">>, <<"GET", "/v1/models">>, <<"POST", "/v1/chat/completions">>,
     <<"GET", "/v1/chat/completions">>}

NoRequest == [method |-> "", url |-> "", pending |-> <<>>, body |-> ""]

isKill(q)   == q.method = "POST" /\ q.url = "/kill"
isModels(q) == q.method = "GET" /\ q.url = "/v1/models"
isChat(q)   == q.method = "POST" /\ q.url = "/v1/chat/completions"

HasClose(calls) == \E i \in 1..Len(calls) : calls[i].op = "server.close"

ServerInit ==
    /\ listening = TRUE
    /\ pc = [r \in Reqs |-> "idle"]
    /\ req = [r \in Reqs |-> NoRequest]
    /\ log = [r \in Reqs |-> <<>>]
    /\ ai = [r \in Reqs |-> NoCall]
    /\ fmt = [r \in Reqs |-> <<>>]

FormatterOff ==
    /\ fphase = "off"
    /\ fmodel = ""
    /\ fmsgs = <<>>
    /\ fprompt = ""

Init == ServerInit /\ FormatterOff

\* A client opens a connection: accepted while the listener is open, refused after.
Connect(r) ==
    /\ pc[r] = "idle"
    /\ IF r = 1 THEN TRUE ELSE pc[r - 1] # "idle"
    /\ pc' = [pc EXCEPT ![r] = IF listening THEN "connected" ELSE "refused"]
    /\ UNCHANGED <<listening, req, log, ai, fmt, fvars>>

\* server.close(): the listener stops accepting.  Connections on which no request
\* has started are kept (closeIdle = FALSE) or closed by the http library
\* (closeIdle = TRUE), depending on its version.
afterClose(state, closeIdle) ==
    [q \in Reqs |-> IF closeIdle /\ state[q] = "connected" THEN "refused" ELSE state[q]]

\* The request listener of http.createServer.
Request(r, line, chunks, closeIdle) ==
    /\ pc[r] = "connected"
    /\ LET q == [method |-> line[1], url |-> line[2],
                 pending |-> IF isChat([method |-> line[1], url |-> line[2]])
                             THEN chunks ELSE <<>>,
                 body |-> ""]
       IN  /\ req' = [req EXCEPT ![r] = q]
           /\ IF isKill(q)
              THEN /\ log' = [log EXCEPT ![r] = killHandler]
                   /\ listening' = IF HasClose(killHandler) THEN FALSE ELSE listening
                   /\ pc' = IF HasClose(killHandler)
                            THEN afterClose([pc EXCEPT ![r] = "done"], closeIdle)
                            ELSE [pc EXCEPT ![r] = "done"]
              ELSE IF isModels(q)
              THEN /\ log' = [log EXCEPT ![r] = modelsHandler]
                   /\ pc' = [pc EXCEPT ![r] = "done"]
                   /\ UNCHANGED listening
              ELSE IF ~isChat(q)
              THEN /\ log' = [log EXCEPT ![r] = notFoundHandler]
                   /\ pc' = [pc EXCEPT ![r] = "done"]
                   /\ UNCHANGED listening
              ELSE /\ pc' = [pc EXCEPT ![r] = "receiving"]
                   /\ UNCHANGED <<listening, log>>
    /\ UNCHANGED <<ai, fmt, fvars>>

\* req.on("data", chunk => { body += chunk })
ReqData(r) ==
    /\ pc[r] = "receiving"
    /\ req[r].pending # <<>>
    /\ req' = [req EXCEPT ![r].body = @ \o Head(req[r].pending),
                          ![r].pending = Tail(@)]
    /\ UNCHANGED <<listening, pc, log, ai, fmt, fvars>>

\* req.on("end", async () => { try { ... } catch (err) { ... } }), up to the first
\* await (batch) or to the end of the streaming branch: the calls made on res, the
\* call of the formatter, the call of AI.ask, and where the request is left.
\* askThrows: AI.ask throws synchronously.
onEnd(body, askThrows) ==
    LET requestData == JSONparse(body)
        model == IF requestData.model = "" THEN DefaultModel ELSE requestData.model
        prompt == formatPromptForModel(requestData.messages, model)
        streamMode == requestData.stream = "true"
        formatted == <<[messages |-> requestData.messages, modelId |-> model]>>
        asked == [calls |-> 1, prompt |-> prompt, model |-> model, n |-> 0,
                  settled |-> IF askThrows THEN "threw" ELSE "no"]
        result(calls, state, fmtCalls, aiCall) ==
            [calls |-> calls, pc |-> state, fmt |-> fmtCalls, ai |-> aiCall]
    IN  IF ~requestData.ok
        THEN result(catchHandler(requestData.error), "done", <<>>, NoCall)
        ELSE IF requestData.isNull
        THEN result(catchHandler(NullTypeError), "done", <<>>, NoCall)
        ELSE IF requestData.messagesKind # "array"
        THEN result(badRequest(MissingMessages), "done", <<>>, NoCall)
        ELSE IF prompt = ""
        THEN result(badRequest(MissingContent), "done", formatted, NoCall)
        ELSE IF askThrows
        THEN result(catchHandler(AIFailure), "done", formatted, asked)
        ELSE IF streamMode
        THEN result(streamOpen, "streaming", formatted, asked)
        ELSE result(<<>>, "awaiting", formatted, asked)

\* onEnd on every body text a request can have accumulated when "end" fires.
BodyTexts == {join(chunks, "") : chunks \in ChatBodies}

onEndOf == [body \in BodyTexts, askThrows \in BOOLEAN |-> onEnd(body, askThrows)]

ReqEnd(r, askThrows) ==
    /\ pc[r] = "receiving"
    /\ req[r].pending = <<>>
    /\ log' = [log EXCEPT ![r] = onEndOf[req[r].body, askThrows].calls]
    /\ pc' = [pc EXCEPT ![r] = onEndOf[req[r].body, askThrows].pc]
    /\ fmt' = [fmt EXCEPT ![r] = onEndOf[req[r].body, askThrows].fmt]
    /\ ai' = [ai EXCEPT ![r] = onEndOf[req[r].body, askThrows].ai]
    /\ UNCHANGED <<listening, req, fvars>>

\* The capability emits its next fragment as a "data" event, and the listener the
\* streaming branch registered runs.  (The batch branch registers none: there the
\* fragments are seen only as the text the promise resolves with.)
AIData(r) ==
    /\ pc[r] = "streaming"
    /\ ai[r].n < MaxFrags
    /\ ai' = [ai EXCEPT ![r].n = @ + 1]
    /\ log' = [log EXCEPT ![r] = onData(@, ai[r].model, Fragment(ai[r].n + 1))]
    /\ UNCHANGED <<listening, pc, req, fmt, fvars>>

\* The promise resolves: answer.then (streaming), or the code after `await answer`
\* with the whole text as result.
AIResolve(r) ==
    /\ pc[r] \in {"streaming", "awaiting"}
    /\ ai' = [ai EXCEPT ![r].settled = "resolved"]
    /\ log' = [log EXCEPT ![r] = IF pc[r] = "streaming"
                                 THEN @ \o onThen(ai[r].model)
                                 ELSE @ \o batchSuccess(ai[r].model, AnswerText(MaxFrags))]
    /\ pc' = [pc EXCEPT ![r] = "done"]
    /\ UNCHANGED <<listening, req, fmt, fvars>>

\* The promise rejects: the stream's .catch, or the outer catch around `await answer`.
AIReject(r) ==
    /\ pc[r] \in {"streaming", "awaiting"}
    /\ ai' = [ai EXCEPT ![r].settled = "rejected"]
    /\ log' = [log EXCEPT ![r] = IF pc[r] = "streaming"
                                 THEN @ \o onStreamCatch(AIFailure)
                                 ELSE @ \o catchHandler(AIFailure)]
    /\ pc' = [pc EXCEPT ![r] = "done"]
    /\ UNCHANGED <<listening, req, fmt, fvars>>

Next ==
    \/ \E r \in Reqs : Connect(r)
    \/ \E r \in Reqs, line \in RequestLines :
          \E chunks \in IF line = <<"POST", "/v1/chat/completions">> THEN ChatBodies ELSE {<<>>},
             closeIdle \in IF line = <<"POST", "/kill">> THEN BOOLEAN ELSE {FALSE} :
             Request(r, line, chunks, closeIdle)
    \/ \E r \in Reqs : ReqData(r)
    \/ \E r \in Reqs, askThrows \in BOOLEAN : ReqEnd(r, askThrows)
    \/ \E r \in Reqs : AIData(r)
    \/ \E r \in Reqs : AIResolve(r)
    \/ \E r \in Reqs : AIReject(r)

Spec == Init /\ [][Next]_vars

\* The event loop runs a callback that is ready (the "end" of a body), and the
\* capability settles a call it has accepted: some such step is eventually taken
\* while one is possible.
Progress ==
    \E r \in Reqs :
        \/ \E askThrows \in BOOLEAN : ReqEnd(r, askThrows)
        \/ AIResolve(r)
        \/ AIReject(r)

Fairness == WF_vars(Progress)

LiveSpec == Init /\ [][Next]_vars /\ Fairness

(***************************************************************************)
(* A run of the formatter alone: formatPromptForModel applied to a model   *)
(* identifier and a message sequence drawn from bounded sets.              *)
(***************************************************************************)
ModelIds ==
    {"Meta-Llama3.1-70B", "llama3.1-instruct", "LLAMA-4-scout", "llama3-8b",
     "Llama-3.3-70B", "llama-3.1", "llama2", "codellama-13b", "CodeLlama-Llama3",
     "Mistral-Nemo", "codestral", "Mixtral_8x7B", "Anthropic_Claude_Sonnet",
     "claude-3", "CLAUDE-3", "grok-2", "Grok-DeepSeek", "DeepSeek_R1",
     "deepseek-claude", "DeepSeek_R1_Distill_Llama3.3_70B", "openai-mistral",
     "OpenAI_GPT4o-mini", "Google_Gemini", "gemini-OPENAI", "gpt-4", ""}

Roles == {"system", "user", "assistant", "tool"}
Contents == {"hi", "<s>"}
Messages == {Msg(role, content) : role \in Roles, content \in Contents}
MessageSeqs == UNION {[1..n -> Messages] : n \in 0..MaxMsgs}

FormatInit ==
    /\ ServerInit
    /\ fphase = "input"
    /\ fmodel \in ModelIds
    /\ fmsgs \in MessageSeqs
    /\ fprompt = ""

Format ==
    /\ fphase = "input"
    /\ fprompt' = formatPromptForModel(fmsgs, fmodel)
    /\ fphase' = "done"
    /\ UNCHANGED <<fmodel, fmsgs, svars>>

FormatSpec == FormatInit /\ [][Format]_vars

(***************************************************************************)
(* Reading a request's log.                                                *)
(***************************************************************************)
CountOps(calls, op) == Cardinality({i \in 1..Len(calls) : calls[i].op = op})

\* The status of the first status line written, 0 when none was.
StatusOf(calls) ==
    IF \E i \in 1..Len(calls) : calls[i].op = "writeHead"
    THEN calls[CHOOSE i \in 1..Len(calls) :
                 /\ calls[i].op = "writeHead"
                 /\ \A j \in 1..(i - 1) : calls[j].op # "writeHead"].status
    ELSE 0

\* The response ends with a JSON body carrying an `error` field.
HasErrorBody(calls) ==
    \E i \in 1..Len(calls) : calls[i].op = "end" /\ calls[i].data.kind = "error"

Wrote(calls, data) ==
    \E i \in 1..Len(calls) : calls[i].op = "write" /\ calls[i].data = data

IsStreamRequest(r) == isChat(req[r]) /\ JSONparse(req[r].body).stream = "true"

\* The chunk frames of the fragments the capability has produced for r, in order.
FragmentFrames(r) ==
    [i \in 1..ai[r].n |-> WriteFrame(DeltaChunk(ai[r].model, Fragment(i)))]

(***************************************************************************)
(* C1: a streaming request whose inference call completed has written      *)
(* exactly: the event-stream head, one chunk frame per fragment produced,  *)
(* in the order produced, a chunk with empty delta and finish reason       *)
(* "stop", the frame "data: [DONE]", and then ended the response; nothing  *)
(* follows [DONE].                                                         *)
(***************************************************************************)
C1_StreamSuccessFrames ==
    \A r \in Reqs :
        (pc[r] = "done" /\ IsStreamRequest(r) /\ ai[r].settled = "resolved") =>
            log[r] = <<WriteHead(200, SSE_TYPE)>> \o FragmentFrames(r)
                        \o <<WriteFrame(StopChunk(ai[r].model)), WriteFrame(DoneLiteral),
                             End(NoData)>>

C1_Witness ==
    \E r \in Reqs :
        /\ pc[r] = "done" /\ IsStreamRequest(r) /\ ai[r].settled = "resolved"
        /\ ai[r].n = MaxFrags
        /\ log[r][Len(log[r]) - 1] = WriteFrame(DoneLiteral)

(***************************************************************************)
(* C2 (as claimed): a chat request whose parsed body has no `messages`, or *)
(* a `messages` that is not an array, is answered 400 with an `error` body *)
(* and AI.ask is never called for it.                                      *)
(***************************************************************************)
C2_MissingMessagesIs400 ==
    \A r \in Reqs :
        (/\ pc[r] = "done" /\ isChat(req[r])
         /\ JSONparse(req[r].body).ok
         /\ JSONparse(req[r].body).messagesKind # "array") =>
            /\ StatusOf(log[r]) = 400
            /\ HasErrorBody(log[r])
            /\ ai[r].calls = 0

(***************************************************************************)
(* C3 (as claimed): a chat request whose body cannot be parsed is answered *)
(* 400 with an `error` body, before any inference call, never 500.         *)
(***************************************************************************)
C3_MalformedIs400 ==
    \A r \in Reqs :
        (pc[r] = "done" /\ isChat(req[r]) /\ ~JSONparse(req[r].body).ok) =>
            /\ StatusOf(log[r]) = 400
            /\ HasErrorBody(log[r])
            /\ ai[r].calls = 0

(***************************************************************************)
(* C4 (as claimed): a chat request whose `messages` is the empty array is  *)
(* rejected in validation: formatPromptForModel is never called with the   *)
(* empty sequence and AI.ask is never called.                              *)
(***************************************************************************)
C4_EmptyMessagesRejected ==
    \A r \in Reqs :
        (/\ pc[r] \in {"done", "streaming", "awaiting"} /\ isChat(req[r])
         /\ JSONparse(req[r].body).ok
         /\ JSONparse(req[r].body).messagesKind = "array"
         /\ Len(JSONparse(req[r].body).messages) = 0) =>
            /\ \A i \in 1..Len(fmt[r]) : Len(fmt[r][i].messages) > 0
            /\ ai[r].calls = 0

(***************************************************************************)
(* C5: a streaming request whose inference call failed after the stream    *)
(* was opened has written the chunk frames of the fragments produced, then *)
(* exactly one error event carrying the failure message, and ended; no     *)
(* "stop" chunk, no [DONE] frame, and AI.ask was called once.              *)
(***************************************************************************)
C5_StreamFailureOneErrorEvent ==
    \A r \in Reqs :
        (pc[r] = "done" /\ IsStreamRequest(r) /\ ai[r].settled = "rejected") =>
            /\ log[r] = <<WriteHead(200, SSE_TYPE)>> \o FragmentFrames(r)
                           \o <<WriteFrame(ErrorBody(AIFailure)), End(NoData)>>
            /\ ~Wrote(log[r], DoneLiteral)
            /\ ~Wrote(log[r], StopChunk(ai[r].model))
            /\ ai[r].calls = 1

C5_Witness ==
    \E r \in Reqs :
        /\ pc[r] = "done" /\ IsStreamRequest(r) /\ ai[r].settled = "rejected"
        /\ ai[r].n >= 1
        /\ Wrote(log[r], ErrorBody(AIFailure))

(***************************************************************************)
(* C6: every /kill handled is answered 200 with a JSON message body, and   *)
(* the response is written and ended before server.close() is called;     *)
(* once the listener is closed it stays closed and a new connection is     *)
(* refused at once, so a later request is served (its connection was       *)
(* accepted before) or refused.                                            *)
(***************************************************************************)
KillAnswered(r) ==
    /\ pc[r] = "done"
    /\ StatusOf(log[r]) = 200
    /\ CountOps(log[r], "writeHead") = 1
    /\ \E e \in 1..Len(log[r]) :
          /\ log[r][e] = End(MessageBody("Server shutting down"))
          /\ \A i \in 1..Len(log[r]) :
                /\ log[r][i].op = "writeHead" => i < e
                /\ log[r][i].op = "server.close" => e < i
    /\ HasClose(log[r])
    /\ ~listening

C6_KillAnswersThenCloses ==
    /\ [](\A r \in Reqs : (pc[r] \notin {"idle", "connected", "refused"} /\ isKill(req[r]))
                              => KillAnswered(r))
    /\ [][~listening => ~listening']_vars
    /\ [][\A r \in Reqs : (~listening /\ pc[r] = "idle") => pc'[r] \in {"idle", "refused"}]_vars
    /\ [][\A r \in Reqs : (pc[r] = "connected" /\ pc'[r] # "connected") =>
              \/ pc'[r] = "refused"
              \/ pc'[r] = "receiving"
              \/ pc'[r] = "done" /\ CountOps(log'[r], "end") = 1]_vars

C6_Witness ==
    \E k \in Reqs, q \in Reqs :
        /\ isKill(req[k]) /\ KillAnswered(k)
        /\ pc[q] = "refused" /\ req[q] = NoRequest

(***************************************************************************)
(* C7: the family used is that of the first rule, in the order 1..9, whose *)
(* substring occurs in the lower-cased identifier: the prompt returned is  *)
(* that family's rendering (SimpleChat with system support exactly when    *)
(* the identifier contains "openai"); identifiers that differ only in      *)
(* letter case get the same prompt; "deepseek-claude" is rendered as       *)
(* Claude and "openai-mistral" as Mistral; no match renders Default.       *)
(***************************************************************************)
RulePatterns ==
    <<{"llama3.1", "llama-4"}, {"llama3", "llama-3.3"}, {"llama2", "codellama"},
      {"mistral", "nemo", "codestral"}, {"anthropic", "claude"}, {"grok"},
      {"deepseek"}, {"openai", "google", "gemini"}>>

RuleFamily ==
    <<"Llama3", "Llama3", "Llama2", "Mistral", "Claude", "Grok", "Llama2",
      "SimpleChat", "Default">>

RuleMatches(i, lower) == \E p \in RulePatterns[i] : includes(lower, p)

FirstRule(lower) ==
    IF \E i \in 1..Len(RulePatterns) : RuleMatches(i, lower)
    THEN CHOOSE i \in 1..Len(RulePatterns) :
            RuleMatches(i, lower) /\ \A j \in 1..(i - 1) : ~RuleMatches(j, lower)
    ELSE Len(RulePatterns) + 1

RenderFamily(family, messages, systemSupported) ==
    CASE family = "Llama3"     -> formatLlama3(messages)
      [] family = "Llama2"     -> formatLlama2(messages)
      [] family = "Mistral"    -> formatMistral(messages)
      [] family = "Claude"     -> formatClaude(messages)
      [] family = "Grok"       -> formatGrok(messages)
      [] family = "SimpleChat" -> formatSimpleChat(messages, systemSupported)
      [] family = "Default"    -> formatDefault(messages)

C7_FirstMatchingRuleWins ==
    fphase = "done" =>
        LET lower == toLowerCase(fmodel) IN
        /\ fprompt = RenderFamily(RuleFamily[FirstRule(lower)], fmsgs,
                                  includes(lower, "openai"))
        /\ \A other \in ModelIds :
              toLowerCase(other) = lower => formatPromptForModel(fmsgs, other) = fprompt
        /\ fmodel = "deepseek-claude" => fprompt = formatClaude(fmsgs)
        /\ fmodel = "openai-mistral" => fprompt = formatMistral(fmsgs)
        /\ (\A i \in 1..Len(RulePatterns) : ~RuleMatches(i, lower))
              => fprompt = formatDefault(fmsgs)

C7_Witness ==
    /\ fphase = "done"
    /\ fmodel = "deepseek-claude"
    /\ Len(fmsgs) = MaxMsgs
    /\ fprompt = formatClaude(fmsgs)
    /\ fprompt # formatLlama2(fmsgs)

(***************************************************************************)
(* C8 (as amended): for every message sequence rendered by the Llama2      *)
(* formatter, the prompt never ends with "<s>"; and when the first message *)
(* is a system message, it is rendered exactly once, as a <<SYS>> block    *)
(* that follows an opening "[INST] " of its own right after the leading    *)
(* "<s>" (so inside an instruction bracket, one the block never closes);   *)
(* the per-message loop adds nothing for it (the other "[INST] " and all   *)
(* " [/INST]" written are those of the user messages after it), and its    *)
(* content is not wrapped in the user form "[INST] content [/INST]".       *)
(***************************************************************************)
UsesLlama2(modelId) == RuleFamily[FirstRule(toLowerCase(modelId))] = "Llama2"

\* The messages after the first with the given role (and content, if not "").
Later(messages, roles, content) ==
    {i \in 2..Len(messages) :
        /\ messages[i].role \in roles
        /\ content = "" \/ messages[i].content = content}

Llama2MarkerText == "<s>[INST] <<SYS>>\n\n<</SYS>>\n\n [/INST] </s><s>"

C8_Llama2SystemOnceNoDanglingStart ==
    (fphase = "done" /\ UsesLlama2(fmodel)) =>
        /\ ~endsWith(fprompt, "<s>")
        /\ (Len(fmsgs) >= 1 /\ fmsgs[1].role = "system") =>
              LET content == fmsgs[1].content
                  block == "<s>[INST] <<SYS>>\n" \o content \o "\n<</SYS>>\n\n"
              IN
              /\ Len(fprompt) >= Len(block) /\ SubSeq(fprompt, 1, Len(block)) = block
              /\ CountOccurrences(fprompt, "<<SYS>>\n" \o content \o "\n<</SYS>>\n\n") = 1
              /\ CountOccurrences(fprompt, "<<SYS>>") = 1
              /\ CountOccurrences(fprompt, "[INST] ")
                    = 1 + Cardinality(Later(fmsgs, {"user"}, ""))
              /\ CountOccurrences(fprompt, " [/INST]")
                    = Cardinality(Later(fmsgs, {"user"}, ""))
              /\ CountOccurrences(fprompt, "[INST] " \o content \o " [/INST]")
                    = Cardinality(Later(fmsgs, {"user"}, content))
              /\ ~includes(Llama2MarkerText, content) =>
                    CountOccurrences(fprompt, content)
                        = 1 + Cardinality(Later(fmsgs, {"user", "assistant"}, content))

(***************************************************************************)
(* C8 (as claimed): for every message sequence rendered by the Llama2      *)
(* formatter, a leading system message is rendered exactly once, it is     *)
(* never rendered inside instruction brackets (where its <<SYS>> block     *)
(* starts, every "[INST]" written before it has been closed by a           *)
(* "[/INST]"), and the prompt never ends with "<s>".                       *)
(***************************************************************************)
\* The occurrences of sub in s that start before position p.
CountBefore(s, sub, p) ==
    Cardinality({i \in 1..(Len(s) - Len(sub) + 1) :
                    i < p /\ SubSeq(s, i, i + Len(sub) - 1) = sub})

\* Position p of the prompt lies inside instruction brackets: an "[INST]" before
\* it is still open.
InsideInstructionBrackets(prompt, p) ==
    CountBefore(prompt, "[INST]", p) > CountBefore(prompt, "[/INST]", p)

C8_SystemNeverInsideBrackets ==
    (fphase = "done" /\ UsesLlama2(fmodel)) =>
        /\ ~endsWith(fprompt, "<s>")
        /\ (Len(fmsgs) >= 1 /\ fmsgs[1].role = "system") =>
              LET block == "<<SYS>>\n" \o fmsgs[1].content \o "\n<</SYS>>\n\n" IN
              /\ CountOccurrences(fprompt, block) = 1
              /\ \A p \in 1..(Len(fprompt) - Len(block) + 1) :
                    SubSeq(fprompt, p, p + Len(block) - 1) = block
                        => ~InsideInstructionBrackets(fprompt, p)

C8_Witness ==
    /\ fphase = "done"
    /\ fmodel = "DeepSeek_R1"
    /\ Len(fmsgs) = MaxMsgs
    /\ fmsgs[1] = Msg("system", "hi")
    /\ fmsgs[Len(fmsgs)].role = "assistant"
    /\ endsWith(fprompt, "</s>")

(***************************************************************************)
(* C9: under any interleaving, a /kill included, every chat-completion     *)
(* request whose body has been received in full eventually has an outcome  *)
(* of its own (a complete JSON response, a [DONE]-terminated stream, a     *)
(* JSON error body or an in-band error event), given that the capability   *)
(* settles every call; a /kill handled is answered at once, whatever is in *)
(* flight; and no request is finished without such an outcome.             *)
(***************************************************************************)
BodyReceived(r) ==
    \/ pc[r] = "receiving" /\ req[r].pending = <<>>
    \/ pc[r] \in {"streaming", "awaiting"}

Outcome(r) ==
    /\ pc[r] = "done"
    /\ Len(log[r]) >= 2
    /\ log[r][Len(log[r])].op = "end"
    /\ LET calls == log[r]
           last == calls[Len(calls)]
           before == calls[Len(calls) - 1]
       IN  \/ StatusOf(calls) = 200 /\ last.data.kind = "completion"
           \/ StatusOf(calls) = 200 /\ before = WriteFrame(DoneLiteral)
           \/ StatusOf(calls) \in {400, 500} /\ last.data.kind = "error"
                 /\ last.data.text # ""
           \/ StatusOf(calls) = 200 /\ before.op = "write" /\ before.data.kind = "error"
                 /\ before.data.text # ""

C9_EveryRequestGetsItsOutcome ==
    /\ \A r \in Reqs : BodyReceived(r) ~> Outcome(r)
    /\ [](\A r \in Reqs : (pc[r] = "done" /\ isChat(req[r])) => Outcome(r))
    /\ [][\A r \in Reqs : (pc[r] = "connected" /\ isKill(req'[r])) =>
              (pc'[r] = "done" /\ CountOps(log'[r], "end") = 1)]_vars
    /\ [][\A r \in Reqs : (BodyReceived(r) /\ ~listening')
              => (BodyReceived(r)' \/ Outcome(r)')]_vars

C9_Witness ==
    \E k \in Reqs, q \in Reqs :
        /\ isKill(req[k]) /\ pc[k] = "done" /\ ~listening
        /\ q < k
        /\ Outcome(q) /\ isChat(req[q]) /\ ai[q].settled = "rejected"

(***************************************************************************)
(* C10: on every path the status line is written at most once, the         *)
(* response is ended at most once, and nothing is written to a response    *)
(* after it has ended.                                                     *)
(***************************************************************************)
C10_ResponseWrittenOnce ==
    \A r \in Reqs :
        /\ CountOps(log[r], "writeHead") <= 1
        /\ CountOps(log[r], "end") <= 1
        /\ \A i \in 1..Len(log[r]), j \in 1..Len(log[r]) :
              (i < j /\ log[r][i].op = "end") =>
                  log[r][j].op \notin {"writeHead", "write", "end"}
        /\ \A i \in 1..Len(log[r]), j \in 1..Len(log[r]) :
              (i < j /\ log[r][j].op = "writeHead") => log[r][i].op \notin {"write", "end"}

C10_Witness ==
    \E r \in Reqs :
        /\ pc[r] = "done" /\ IsStreamRequest(r) /\ ai[r].settled = "rejected"
        /\ StatusOf(log[r]) = 200
        /\ CountOps(log[r], "writeHead") = 1 /\ CountOps(log[r], "end") = 1
        /\ CountOps(log[r], "write") = MaxFrags + 1

====
